---- MODULE Spec2Model ----
(***************************************************************************)
(* Model of morph_utils/modifications.py: restructuring operations on      *)
(* neuron morphologies (SWC trees).  A morphology is the ordered           *)
(* collection of its node records (the insertion order of the library's    *)
(* id -> node dictionary); a node is a record with the fields the code     *)
(* reads and writes: id, type, pos (x, y, z) and parent.                   *)
(*                                                                         *)
(* Every operation of the module is a pure operator that returns a record  *)
(*   kind   "ok" (a morphology is returned), "none" (None is returned) or  *)
(*          "error" (an exception leaves the call)                         *)
(*   morph  the returned morphology                                        *)
(*   caller the caller's morphology object after the call (python passes   *)
(*          the object by reference, so a call that does not clone it      *)
(*          changes it in place)                                           *)
(* and the actions apply one operation to an input drawn by Init.          *)
(***************************************************************************)
EXTENDS Integers, Sequences, FiniteSets, TLC

VARIABLES morph0,   \* the caller's morphology before the call
          morph,    \* the caller's morphology object after the call
          op,       \* the operation that was called ("init" before any call)
          arg,      \* id of the node argument of the call (0: none)
          kind,     \* "ok", "none" or "error"
          ret,      \* the morphology returned by the call
          changes,  \* the Bool returned by check_morph_for_segment_restructuring
          files     \* temporary swc files that exist on disk

vars == <<morph0, morph, op, arg, kind, ret, changes, files>>

----------------------------------------------------------------------------
(* Bounds of the model *)

MaxNodes == 3      \* nodes of an input tree, general specification
MaxId == 4         \* largest node id of an input tree, general specification
MaxCoord == 1      \* x coordinates are 0..MaxCoord, general specification
MaxPathNodes == 5  \* nodes of an input tree, re-rooting specification
MaxSomaNodes == 3  \* nodes of an input tree, duplicate-soma specification
MaxSomaCoord == 1  \* x coordinates are 0..MaxSomaCoord, duplicate-soma specification
MaxSegNodes == 3   \* nodes of an input tree, segment-repair specification
MaxSegCoord == 2   \* x coordinates are 0..MaxSegCoord, segment-repair specification

SOMA == 1          \* node type of a soma node
NEURITE == 3       \* a node type other than soma
NoParent == -1     \* parent id of a root

----------------------------------------------------------------------------
(* The node/tree library (neuron_morphology.Morphology) as the module uses it *)

NoNode == [id |-> 0, type |-> 0, pos |-> <<0, 0, 0>>, parent |-> 0]

IdsOf(m) == {m[k].id : k \in 1..Len(m)}

HasId(m, i) == i \in IdsOf(m)

IndexOf(m, i) == CHOOSE k \in 1..Len(m) : m[k].id = i

node_by_id(m, i) == m[IndexOf(m, i)]

\* children of a node, in insertion order
get_children(m, n) == SelectSeq(m, LAMBDA c : c.parent = n.id)

\* nodes whose parent is not a node of the morphology
get_roots(m) == SelectSeq(m, LAMBDA c : ~HasId(m, c.parent))

\* the soma node: the first node of type 1, None when there is none
get_soma(m) ==
    LET s == SelectSeq(m, LAMBDA c : c.type = SOMA)
    IN  IF s = <<>> THEN NoNode ELSE s[1]

\* node['parent'] = p on the node with id i
SetParent(m, i, p) == [m EXCEPT ![IndexOf(m, i)].parent = p]

\* node['type'] = t on the node with id i
SetType(m, i, t) == [m EXCEPT ![IndexOf(m, i)].type = t]

\* Morphology(nodes, node_id_cb, parent_id_cb): a dictionary keyed by id, so a
\* node listed twice keeps its first position
RECURSIVE Dedup(_)
Dedup(s) ==
    IF s = <<>> THEN <<>>
    ELSE LET r == Dedup(SubSeq(s, 1, Len(s) - 1))
             x == s[Len(s)]
         IN  IF \E k \in 1..Len(r) : r[k] = x THEN r ELSE Append(r, x)

\* the morphology built from the nodes of m listed (by id) in idseq
Morphology(m, idseq) ==
    LET d == Dedup(idseq) IN [k \in 1..Len(d) |-> node_by_id(m, d[k])]

ParentOf(m) == [i \in IdsOf(m) |-> node_by_id(m, i).parent]

TypeOf(m) == [i \in IdsOf(m) |-> node_by_id(m, i).type]

PosOf(m) == [i \in IdsOf(m) |-> node_by_id(m, i).pos]

ResultOk(r, c) == [kind |-> "ok", morph |-> r, caller |-> c]

ResultNone(c) == [kind |-> "none", morph |-> <<>>, caller |-> c]

ResultError(c) == [kind |-> "error", morph |-> <<>>, caller |-> c]

----------------------------------------------------------------------------
(* re_root_morphology *)

\* a walk that stops after the start node's parent
ReRootVisitOneLevel(m, i) ==
    LET p == node_by_id(m, i).parent
    IN  IF p = NoParent THEN <<i>> ELSE <<i, p>>

\* the while loop: ids visited walking up from the start node through the
\* parent fields, in visiting order
RECURSIVE ReRootVisit(_, _)
ReRootVisit(m, i) ==
    LET p == node_by_id(m, i).parent
    IN  IF p = NoParent THEN <<i>> ELSE <<i>> \o ReRootVisit(m, p)

\* every visited node's new parent read from visited_ids[0]
ReRootNewParentFirst(visited) == [k \in 1..Len(visited) |-> NoParent]

\* new_parent_dict: each visited node's new parent is the node visited before
\* it, -1 for the first
ReRootNewParent(visited) ==
    [k \in 1..Len(visited) |-> IF k = 1 THEN NoParent ELSE visited[k - 1]]

RECURSIVE ReRootApply(_, _, _, _)
ReRootApply(m, visited, newpar, k) ==
    IF k > Len(visited) THEN m
    ELSE ReRootApply(SetParent(m, visited[k], newpar[k]), visited, newpar, k + 1)

\* the nodes of the caller's morphology after the call: the loop at line 390
\* writes the parent fields of the caller's own node objects
ReRootNodes(m, start) ==
    LET visited == ReRootVisit(m, start)
    IN  ReRootApply(m, visited, ReRootNewParent(visited), 1)

re_root_morphology(start, m) ==
    LET n == ReRootNodes(m, start)
    IN  ResultOk(n, n)

----------------------------------------------------------------------------
(* morph_utils.graph_traversal, as the module uses it *)

\* ids of the nodes from node i up to and including its root, following the
\* parent fields
RECURSIVE get_path_to_root(_, _)
get_path_to_root(i, m) ==
    LET p == node_by_id(m, i).parent
    IN  IF p = NoParent THEN <<i>> ELSE <<i>> \o get_path_to_root(p, m)

RECURSIVE BfsQueue(_, _)
BfsQueue(queue, m) ==
    IF queue = <<>> THEN <<>>
    ELSE LET kids == get_children(m, node_by_id(m, Head(queue)))
         IN  <<Head(queue)>>
             \o BfsQueue(Tail(queue) \o [k \in 1..Len(kids) |-> kids[k].id], m)

\* ids of the nodes reachable downward from node i, breadth first, i first
bfs_tree(i, m) == BfsQueue(<<i>>, m)

RECURSIVE PreOrder(_, _)
RECURSIVE PreOrderAll(_, _)
PreOrder(i, m) == <<i>> \o PreOrderAll(get_children(m, node_by_id(m, i)), m)
PreOrderAll(kids, m) ==
    IF kids = <<>> THEN <<>>
    ELSE PreOrder(Head(kids).id, m) \o PreOrderAll(Tail(kids), m)

\* labels node i and its subtree start, start + 1, ... in depth-first
\* pre-order, children in insertion order, writing old id -> new id into idmap
\* (a set of <<old, new>> pairs kept as a function on the labelled ids);
\* returns the id map and the number of nodes labelled
dfs_labeling(i, start, idmap, m) ==
    LET order == PreOrder(i, m)
        new == {order[k] : k \in 1..Len(order)}
        pos(x) == CHOOSE k \in 1..Len(order) : order[k] = x
    IN  [map |-> [x \in (DOMAIN idmap) \cup new |->
                     IF x \in new THEN start + pos(x) - 1 ELSE idmap[x]],
         count |-> Len(order)]

----------------------------------------------------------------------------
(* generate_irreducible_morph *)

NumChildren(m, i) == Len(get_children(m, node_by_id(m, i)))

\* line 22: nodes with more than one child, no child, or parent -1
GimIrreducible(m) ==
    {i \in IdsOf(m) :
        \/ NumChildren(m, i) > 1
        \/ NumChildren(m, i) = 0
        \/ node_by_id(m, i).parent = NoParent}

\* lines 24-31: the soma, else the only node with parent -1, else none
GimSoma(m) ==
    LET soma == get_soma(m)
        soma_list == SelectSeq(m, LAMBDA n : n.parent = NoParent)
    IN  IF soma # NoNode THEN soma
        ELSE IF Len(soma_list) # 1 THEN NoNode
        ELSE soma_list[1]

\* lines 32-33
GimIrreducibleWithSoma(m) ==
    IF get_soma(m) # NoNode THEN GimIrreducible(m) \cup {get_soma(m).id}
    ELSE GimIrreducible(m)

\* line 35, in node order
GimLeaves(m) ==
    LET l == SelectSeq(m, LAMBDA n : Len(get_children(m, n)) = 0)
    IN  [k \in 1..Len(l) |-> l[k].id]

\* lines 46-51: this_no['parent'] = next_node_up['id'] along the path
RECURSIVE GimRelink(_, _, _)
GimRelink(m, inpath, i) ==
    IF i > Len(inpath) - 1 THEN m
    ELSE GimRelink(SetParent(m, inpath[i], inpath[i + 1]), inpath, i + 1)

\* lines 38-55, one leaf.  st.next is next_node_up (0: not yet bound): it is
\* assigned only inside the inner loop, so a path with a single irreducible
\* node leaves it as the previous leaf left it, and unbound on the first leaf
GimLeaf(st, leaf, irr) ==
    IF st.err THEN st
    ELSE LET path == get_path_to_root(leaf, st.m)
             inpath == SelectSeq(path, LAMBDA i : i \in irr)
             next == IF Len(inpath) > 1 THEN inpath[Len(inpath)] ELSE st.next
         IN  IF next = 0 THEN [st EXCEPT !.err = TRUE]
             ELSE [m |-> SetType(GimRelink(st.m, inpath, 1), next, SOMA),
                   acc |-> st.acc \o SubSeq(inpath, 1, Len(inpath) - 1) \o <<next>>,
                   next |-> next, err |-> FALSE]

RECURSIVE GimLoop(_, _, _, _)
GimLoop(st, leaves, irr, k) ==
    IF k > Len(leaves) THEN st
    ELSE GimLoop(GimLeaf(st, leaves[k], irr), leaves, irr, k + 1)

generate_irreducible_morph(m) ==
    IF GimSoma(m) = NoNode THEN ResultNone(m)
    ELSE LET st == GimLoop([m |-> m, acc |-> <<>>, next |-> 0, err |-> FALSE],
                           GimLeaves(m), GimIrreducibleWithSoma(m), 1)
         IN  IF st.err THEN ResultError(m)
             ELSE ResultOk(Morphology(st.m, st.acc), m)

----------------------------------------------------------------------------
(* sort_morph_ids *)

UnsortedFile == "temp_sorting.swc"

SortedFile == "temp_sorted.swc"

\* swc_io: one line per node, "id type x y z parent"
morphology_to_swc(m) ==
    [k \in 1..Len(m) |->
        <<m[k].id, m[k].type, m[k].pos[1], m[k].pos[2], m[k].pos[3], m[k].parent>>]

morphology_from_swc(lines) ==
    [k \in 1..Len(lines) |->
        [id |-> lines[k][1], type |-> lines[k][2],
         pos |-> <<lines[k][3], lines[k][4], lines[k][5]>>,
         parent |-> lines[k][Len(lines[k])]]]

\* ids of a set in ascending order (iteration order of a set of small ints)
RECURSIVE Ascending(_)
Ascending(S) ==
    IF S = {} THEN <<>>
    ELSE LET x == CHOOSE y \in S : \A z \in S : y <= z
         IN  <<x>> \o Ascending(S \ {x})

\* lines 219-223: the roots other than the soma node
SortOtherRoots(m, soma) ==
    LET roots == get_roots(m)
    IN  Ascending(({roots[k].id : k \in 1..Len(roots)} \cup {soma.id}) \ {soma.id})

\* lines 229-231
RECURSIVE SortLabelRoots(_, _, _, _, _)
SortLabelRoots(roots, k, start, idmap, m) ==
    IF k > Len(roots) THEN idmap
    ELSE LET r == dfs_labeling(roots[k], start, idmap, m)
         IN  SortLabelRoots(roots, k + 1, start + r.count, r.map, m)

\* lines 211-231: new_node_ids
SortNewNodeIds(m, soma) ==
    LET first == dfs_labeling(soma.id, 1, << >>, m)
    IN  SortLabelRoots(SortOtherRoots(m, soma), 1, 1 + first.count, first.map, m)

\* lines 235-245: every line can be rewritten (no KeyError)
SortKeysFound(lines, idmap) ==
    \A k \in 1..Len(lines) :
        /\ lines[k][1] \in DOMAIN idmap
        /\ lines[k][Len(lines[k])] # NoParent
              => lines[k][Len(lines[k])] \in DOMAIN idmap

\* line 243: the new id, the old line's middle fields, the new parent
SortNewLine(line, idmap) ==
    LET old_parent == line[Len(line)]
        new_parent == IF old_parent = NoParent THEN NoParent ELSE idmap[old_parent]
    IN  <<idmap[line[1]]>> \o SubSeq(line, 2, Len(line) - 1) \o <<new_parent>>

\* lines 233-251: new_output_dict is keyed by new id (a later line with the
\* same new id replaces an earlier one) and written in ascending key order
SortedLines(lines, idmap) ==
    LET keys == {idmap[lines[k][1]] : k \in 1..Len(lines)}
        order == Ascending(keys)
        last(key) == CHOOSE k \in 1..Len(lines) :
                        /\ idmap[lines[k][1]] = key
                        /\ \A j \in 1..Len(lines) : idmap[lines[j][1]] = key => j <= k
    IN  [i \in 1..Len(order) |-> SortNewLine(lines[last(order[i])], idmap)]

\* soma_node = NoNode stands for the default None.  The result also carries
\* the temporary files left on disk and the old id -> new id table.
sort_morph_ids(m, soma_node) ==
    LET lines == morphology_to_swc(m)
        soma == IF soma_node = NoNode THEN get_soma(m) ELSE soma_node
    IN  IF soma = NoNode
        THEN \* line 220: None['id'] raises, after line 201 wrote the file
             [kind |-> "error", morph |-> <<>>, caller |-> m,
              files |-> {UnsortedFile}, idmap |-> << >>]
        ELSE LET idmap == SortNewNodeIds(m, soma)
             IN  IF ~SortKeysFound(lines, idmap)
                 THEN [kind |-> "error", morph |-> <<>>, caller |-> m,
                       files |-> {UnsortedFile}, idmap |-> idmap]
                 ELSE [kind |-> "ok",
                       morph |-> morphology_from_swc(SortedLines(lines, idmap)),
                       caller |-> m, files |-> {}, idmap |-> idmap]

----------------------------------------------------------------------------
(* remove_duplicate_soma *)

\* line 138-139: nodes at the soma's coordinate, the soma itself removed
RdsDuplicateIds(m, soma) ==
    {i \in IdsOf(m) : node_by_id(m, i).pos = soma.pos /\ i # soma.id}

\* an adoption that leaves the children of the duplicates where they are
RdsAdoptNone(m, soma, dups) == m

\* lines 158-163: nodes whose parent is a duplicate and that are no duplicate
\* get the soma as parent
RdsAdopt(m, soma, dups) ==
    [k \in 1..Len(m) |->
        IF m[k].parent \in dups /\ m[k].id \notin dups
        THEN [m[k] EXCEPT !.parent = soma.id]
        ELSE m[k]]

\* lines 166-167
RdsFixSoma(m, soma) == SetType(SetParent(m, soma.id, NoParent), soma.id, SOMA)

\* line 170
RdsKeep(m, dups) == SelectSeq(m, LAMBDA n : n.id \notin dups)

\* lines 141-152: no duplicates
RdsNoDuplicates(m, soma) ==
    IF soma.id # 1
    THEN LET r == sort_morph_ids(m, soma)
         IN  IF r.kind = "ok" /\ get_soma(r.morph) = NoNode
             THEN [r EXCEPT !.kind = "error", !.morph = <<>>]  \* line 148: None['parent']
             ELSE r
    ELSE [kind |-> "ok", morph |-> m, caller |-> m, files |-> {},
          idmap |-> [i \in IdsOf(m) |-> i]]

\* lines 154-181: duplicates exist
RdsWithDuplicates(m, soma, dups) ==
    LET new_morph == RdsKeep(RdsFixSoma(RdsAdopt(m, soma, dups), soma), dups)
        new_soma == get_soma(new_morph)
    IN  IF new_soma.id # 1
        THEN sort_morph_ids(new_morph, NoNode)
        ELSE [kind |-> "ok", morph |-> new_morph, caller |-> new_morph, files |-> {},
              idmap |-> [i \in IdsOf(new_morph) |-> i]]

\* soma_arg = NoNode stands for the default None.  The call works on a clone,
\* so the caller's morphology is m whatever happens.
remove_duplicate_soma(m, soma_arg) ==
    LET soma == IF soma_arg = NoNode THEN get_soma(m) ELSE soma_arg
    IN  IF soma = NoNode
        THEN \* line 138: None['x'] raises
             [kind |-> "error", morph |-> <<>>, caller |-> m, files |-> {},
              idmap |-> << >>]
        ELSE LET dups == RdsDuplicateIds(m, soma)
                 r == IF dups = {} THEN RdsNoDuplicates(m, soma)
                      ELSE RdsWithDuplicates(m, soma, dups)
             IN  [r EXCEPT !.caller = m]

----------------------------------------------------------------------------
(* assign_soma_by_node_degree *)

num_children_threshold == 2

\* ids of m in node order
IdSeqOf(m) == [k \in 1..Len(m) |-> m[k].id]

RECURSIVE SumCoord(_, _, _)
SumCoord(m, d, k) == IF k = 0 THEN 0 ELSE m[k].pos[d] + SumCoord(m, d, k - 1)

Square(x) == x * x

\* euclidean distance of node n to the centroid of m, squared and scaled by
\* Len(m)^2 so that it stays an integer: comparisons are those of line 95
CentroidDist(m, n) ==
    Square(Len(m) * n.pos[1] - SumCoord(m, 1, Len(m)))
    + Square(Len(m) * n.pos[2] - SumCoord(m, 2, Len(m)))
    + Square(Len(m) * n.pos[3] - SumCoord(m, 3, Len(m)))

\* lines 88-97: the first candidate at the minimum distance
RECURSIVE AsnClosest(_, _, _, _)
AsnClosest(m, no_ids, k, best) ==
    IF k > Len(no_ids) THEN best
    ELSE AsnClosest(m, no_ids, k + 1,
            IF k = 1 \/ CentroidDist(m, node_by_id(m, no_ids[k]))
                           < CentroidDist(m, node_by_id(m, best))
            THEN no_ids[k] ELSE best)

\* lines 77-99: the node that becomes soma (0: no node has enough children)
AsnChosen(m, threshold) ==
    LET max_num_children ==
            CHOOSE c \in {NumChildren(m, i) : i \in IdsOf(m)} :
                \A i \in IdsOf(m) : NumChildren(m, i) <= c
        no_ids == SelectSeq(IdSeqOf(m), LAMBDA i : NumChildren(m, i) = max_num_children)
    IN  IF max_num_children < threshold THEN 0
        ELSE IF Len(no_ids) > 1 THEN AsnClosest(m, no_ids, 1, no_ids[1])
        ELSE no_ids[1]

\* the type is written on the caller's node (line 105): no clone is taken
assign_soma_by_node_degree(m, threshold) ==
    LET soma_types == SelectSeq(m, LAMBDA n : n.type = SOMA)
    IN  IF Len(soma_types) = 1 THEN ResultOk(m, m)
        ELSE IF AsnChosen(m, threshold) = 0 THEN ResultOk(m, m)
        ELSE LET new == SetType(m, AsnChosen(m, threshold), SOMA)
             IN  ResultOk(new, new)

----------------------------------------------------------------------------
(* re_structure_segment *)

\* lines 282-295, one node of path_up.  get_children answers from the child
\* lists the clone was built with (m0), parents are written on the clone (m)
RECURSIVE RssLoop(_, _, _, _, _)
RssLoop(m0, m, path_up, new_root, ct) ==
    IF ct > Len(path_up) THEN [err |-> FALSE, m |-> m]
    ELSE LET kids == get_children(m0, node_by_id(m0, path_up[ct]))
             onpath == SelectSeq([k \in 1..Len(kids) |-> kids[k].id],
                                 LAMBDA i : \E j \in 1..Len(path_up) : path_up[j] = i)
             children == IF ct = 1 /\ onpath = <<>> THEN <<new_root>> ELSE onpath
         IN  IF Len(children) # 1 THEN [err |-> TRUE, m |-> m]
             ELSE RssLoop(m0, SetParent(m, path_up[ct], children[1]),
                          path_up, new_root, ct + 1)

\* works on a clone: the caller's morphology stays m
re_structure_segment(m, new_root, new_roots_parent, overwrite_soma) ==
    LET path_up == SelectSeq(get_path_to_root(new_root, m), LAMBDA i : i # new_root)
    IN  IF path_up = <<>> THEN ResultError(m)     \* line 272: path_up[-1]
        ELSE IF ~overwrite_soma /\ node_by_id(m, path_up[Len(path_up)]).type = SOMA
        THEN ResultOk(m, m)
        ELSE LET r == RssLoop(m, m, path_up, new_root, 1)
             IN  IF r.err THEN ResultError(m)     \* line 293: assert
                 ELSE ResultOk(SetParent(r.m, new_root, new_roots_parent), m)

----------------------------------------------------------------------------
(* check_morph_for_segment_restructuring *)

\* euclidean distance, squared: comparisons are those of line 350
Dist(p, q) == Square(p[1] - q[1]) + Square(p[2] - q[2]) + Square(p[3] - q[3])

\* a comparison that also takes a leaf at the same distance
RECURSIVE CmsClosestOrEqual(_, _, _, _, _)
CmsClosestOrEqual(m, leaves, k, soma_coord, st) ==
    IF k > Len(leaves) THEN st
    ELSE LET d == Dist(node_by_id(m, leaves[k]).pos, soma_coord)
         IN  CmsClosestOrEqual(m, leaves, k + 1, soma_coord,
                IF d <= st.dist
                THEN [dist |-> d, node |-> leaves[k], changes |-> TRUE]
                ELSE st)

\* lines 344-353: the leaf closest to the soma, the root unless a leaf is
\* strictly closer; the first of several leaves at the same distance
RECURSIVE CmsClosest(_, _, _, _, _)
CmsClosest(m, leaves, k, soma_coord, st) ==
    IF k > Len(leaves) THEN st
    ELSE LET d == Dist(node_by_id(m, leaves[k]).pos, soma_coord)
         IN  CmsClosest(m, leaves, k + 1, soma_coord,
                IF d < st.dist
                THEN [dist |-> d, node |-> leaves[k], changes |-> TRUE]
                ELSE st)

\* lines 338-357, one root
CmsRoot(st, root, soma_coord) ==
    LET seg_down == bfs_tree(root, st.m)
        leaf_nodes == SelectSeq(seg_down, LAMBDA i : NumChildren(st.m, i) = 0)
        c == CmsClosest(st.m, leaf_nodes, 1, soma_coord,
                        [dist |-> Dist(node_by_id(st.m, root).pos, soma_coord),
                         node |-> root, changes |-> st.changes])
    IN  [m |-> IF c.node # root THEN re_root_morphology(c.node, st.m).morph ELSE st.m,
         changes |-> c.changes]

RECURSIVE CmsLoop(_, _, _, _)
CmsLoop(st, roots, k, soma_coord) ==
    IF k > Len(roots) THEN st
    ELSE CmsLoop(CmsRoot(st, roots[k], soma_coord), roots, k + 1, soma_coord)

\* works on a clone: the caller's morphology stays m
check_morph_for_segment_restructuring(m) ==
    LET soma == get_soma(m)
    IN  IF soma = NoNode
        THEN [kind |-> "ok", morph |-> m, caller |-> m, changes |-> FALSE]
        ELSE LET roots == SelectSeq(IdSeqOf(get_roots(m)), LAMBDA i : i # soma.id)
                 st == CmsLoop([m |-> m, changes |-> FALSE], roots, 1, soma.pos)
             IN  [kind |-> "ok", morph |-> st.m, caller |-> m, changes |-> st.changes]

----------------------------------------------------------------------------
(* Input trees *)

\* no node is its own ancestor: every node reaches a root in at most n steps
RECURSIVE ReachesRoot(_, _, _)
ReachesRoot(par, k, fuel) ==
    IF par[k] = 0 THEN TRUE
    ELSE IF fuel = 0 THEN FALSE
    ELSE ReachesRoot(par, par[k], fuel - 1)

Forests(n) ==
    {par \in [1..n -> 0..n] : \A k \in 1..n : ReachesRoot(par, k, n)}

IdSeqs(n, maxid) ==
    {s \in [1..n -> 1..maxid] : \A i, j \in 1..n : i # j => s[i] # s[j]}

Positions(maxc) == {<<x, 0, 0>> : x \in 0..maxc}

MakeTree(n, ids, par, typ, pos) ==
    [k \in 1..n |->
        [id |-> ids[k], type |-> typ[k], pos |-> pos[k],
         parent |-> IF par[k] = 0 THEN NoParent ELSE ids[par[k]]]]

NodeTypes == {SOMA, NEURITE}

----------------------------------------------------------------------------
(* Specification of re-rooting: trees of up to MaxPathNodes nodes, ids 1..n *)

InitTree(t) ==
    /\ morph0 = t
    /\ morph = t
    /\ op = "init"
    /\ arg = 0
    /\ kind = "ok"
    /\ ret = <<>>
    /\ changes = FALSE
    /\ files = {}

Return(name, a, r) ==
    /\ op = "init"
    /\ op' = name
    /\ arg' = a
    /\ kind' = r.kind
    /\ ret' = r.morph
    /\ morph' = r.caller
    /\ UNCHANGED morph0

ReRoot ==
    \E a \in IdsOf(morph) :
        /\ Return("re_root_morphology", a, re_root_morphology(a, morph))
        /\ UNCHANGED <<changes, files>>

InitReRoot ==
    \E n \in 1..MaxPathNodes :
        \E par \in Forests(n) :
            InitTree(MakeTree(n, [k \in 1..n |-> k], par, [k \in 1..n |-> NEURITE],
                              [k \in 1..n |-> <<0, 0, 0>>]))

NextReRoot == ReRoot

SpecReRoot == InitReRoot /\ [][NextReRoot]_vars

----------------------------------------------------------------------------
(* Tree vocabulary of the claims *)

\* i is n or an ancestor of n in m
RECURSIVE IsAncestorOrSelf(_, _, _)
IsAncestorOrSelf(m, i, n) ==
    \/ i = n
    \/ /\ node_by_id(m, n).parent # NoParent
       /\ IsAncestorOrSelf(m, i, node_by_id(m, n).parent)

\* the root of the tree of m that holds n
RootOf(m, n) ==
    CHOOSE r \in IdsOf(m) :
        IsAncestorOrSelf(m, r, n) /\ node_by_id(m, r).parent = NoParent

\* number of nodes on the path from n up to its root
DepthOf(m, n) == Cardinality({i \in IdsOf(m) : IsAncestorOrSelf(m, i, n)})

----------------------------------------------------------------------------
(* General specification: every operation on trees of up to MaxNodes nodes   *)
(* with ids up to MaxId, types soma/neurite and x coordinates 0..MaxCoord   *)

GenerateIrreducible ==
    /\ Return("generate_irreducible_morph", 0, generate_irreducible_morph(morph))
    /\ UNCHANGED <<changes, files>>

\* soma_node is None (a = 0) or a node of the morphology
SortMorphIds ==
    \E a \in {0} \cup IdsOf(morph) :
        LET r == sort_morph_ids(morph, IF a = 0 THEN NoNode ELSE node_by_id(morph, a))
        IN  /\ Return("sort_morph_ids", a, r)
            /\ files' = files \cup r.files
            /\ UNCHANGED changes

\* soma is None (a = 0) or a node of the morphology
RemoveDuplicateSoma ==
    \E a \in {0} \cup IdsOf(morph) :
        LET r == remove_duplicate_soma(morph,
                     IF a = 0 THEN NoNode ELSE node_by_id(morph, a))
        IN  /\ Return("remove_duplicate_soma", a, r)
            /\ files' = files \cup r.files
            /\ UNCHANGED changes

AssignSomaByNodeDegree ==
    /\ Return("assign_soma_by_node_degree", 0,
              assign_soma_by_node_degree(morph, num_children_threshold))
    /\ UNCHANGED <<changes, files>>

\* new_roots_parent keeps its default -1
ReStructureSegment ==
    \E a \in IdsOf(morph), overwrite_soma \in BOOLEAN :
        /\ Return("re_structure_segment", a,
                  re_structure_segment(morph, a, NoParent, overwrite_soma))
        /\ UNCHANGED <<changes, files>>

CheckMorphForSegmentRestructuring ==
    LET r == check_morph_for_segment_restructuring(morph)
    IN  /\ Return("check_morph_for_segment_restructuring", 0, r)
        /\ changes' = r.changes
        /\ UNCHANGED files

Init ==
    \E n \in 1..MaxNodes :
        \E ids \in IdSeqs(n, MaxId), par \in Forests(n),
           typ \in [1..n -> NodeTypes], pos \in [1..n -> Positions(MaxCoord)] :
            InitTree(MakeTree(n, ids, par, typ, pos))

Next ==
    \/ GenerateIrreducible
    \/ ReRoot
    \/ SortMorphIds
    \/ RemoveDuplicateSoma
    \/ AssignSomaByNodeDegree
    \/ ReStructureSegment
    \/ CheckMorphForSegmentRestructuring

Spec == Init /\ [][Next]_vars

----------------------------------------------------------------------------
(* Claims about generate_irreducible_morph *)

LeafIds(m) == {i \in IdsOf(m) : NumChildren(m, i) = 0}

GimDone == op = "generate_irreducible_morph"

\* C3: whenever generate_irreducible_morph returns a tree, the ids of the
\* nodes without children are the same in the returned tree and in the input.
C3_LeavesPreserved ==
    (GimDone /\ kind = "ok") => LeafIds(ret) = LeafIds(morph0)

\* roots, branch points and leaves of m
RootBranchLeaf(m) ==
    {i \in IdsOf(m) :
        \/ node_by_id(m, i).parent = NoParent
        \/ NumChildren(m, i) > 1
        \/ NumChildren(m, i) = 0}

\* a is the nearest proper ancestor of i in m that belongs to keep
NearestKept(m, keep, i, a) ==
    /\ a # i
    /\ a \in keep
    /\ IsAncestorOrSelf(m, a, i)
    /\ \A b \in keep :
          (b # i /\ IsAncestorOrSelf(m, b, i)) => IsAncestorOrSelf(m, b, a)

\* C8: on a tree with a resolvable soma the call returns a tree whose nodes
\* are exactly the roots, branch points and leaves of the input, each
\* non-root node having as parent its nearest proper ancestor among them.
C8_IrreducibleTree ==
    (GimDone /\ GimSoma(morph0) # NoNode) =>
        /\ kind = "ok"
        /\ IdsOf(ret) = RootBranchLeaf(morph0)
        /\ \A i \in IdsOf(ret) :
              IF node_by_id(morph0, i).parent = NoParent
              THEN node_by_id(ret, i).parent = NoParent
              ELSE NearestKept(morph0, RootBranchLeaf(morph0), i,
                               node_by_id(ret, i).parent)

----------------------------------------------------------------------------
(* Claims about sort_morph_ids *)

SortDone == op = "sort_morph_ids"

UniqueSoma(m) == Cardinality({i \in IdsOf(m) : node_by_id(m, i).type = SOMA}) = 1

\* C1: for a tree with exactly one type-1 node, the tree returned by
\* sort_morph_ids has the soma at id 1 and node ids exactly 1..N.
C1_SomaFirstContiguous ==
    (SortDone /\ kind = "ok" /\ arg = 0 /\ UniqueSoma(morph0)) =>
        /\ IdsOf(ret) = 1..Len(morph0)
        /\ get_soma(ret).id = 1

\* C10: on every exit path of sort_morph_ids, by return or by error, neither
\* temporary file of the call still exists.
C10_TempFilesReleased ==
    SortDone => files = {}

----------------------------------------------------------------------------
(* Claims about remove_duplicate_soma *)

RdsDone == op = "remove_duplicate_soma"

SameNodes(a, b) ==
    /\ IdsOf(a) = IdsOf(b)
    /\ TypeOf(a) = TypeOf(b)
    /\ PosOf(a) = PosOf(b)
    /\ ParentOf(a) = ParentOf(b)

\* C4: for a tree with a resolvable soma, applying remove_duplicate_soma to
\* its own result returns the same node ids, types, coordinates and parents.
C4_Idempotent ==
    (RdsDone /\ arg = 0 /\ kind = "ok") =>
        LET again == remove_duplicate_soma(ret, NoNode)
        IN  /\ again.kind = "ok"
            /\ SameNodes(again.morph, ret)

----------------------------------------------------------------------------
(* Specification of duplicate-soma removal: trees of up to MaxSomaNodes      *)
(* nodes listed in ascending id order, ids within 1..MaxSomaNodes, types     *)
(* soma/neurite, x coordinates 0..MaxSomaCoord                               *)

AscendingIdSeqs(n, maxid) ==
    {s \in IdSeqs(n, maxid) : \A i, j \in 1..n : i < j => s[i] < s[j]}

InitSoma ==
    \E n \in 1..MaxSomaNodes :
        \E ids \in AscendingIdSeqs(n, MaxSomaNodes), par \in Forests(n),
           typ \in [1..n -> NodeTypes], pos \in [1..n -> Positions(MaxSomaCoord)] :
            InitTree(MakeTree(n, ids, par, typ, pos))

NextSoma == RemoveDuplicateSoma

SpecSoma == InitSoma /\ [][NextSoma]_vars

\* the soma the call of remove_duplicate_soma worked on
RdsSoma == IF arg = 0 THEN get_soma(morph0) ELSE node_by_id(morph0, arg)

\* the duplicates: the other nodes at the soma's coordinate
RdsDups ==
    {i \in IdsOf(morph0) : i # RdsSoma.id /\ node_by_id(morph0, i).pos = RdsSoma.pos}

RdsKept == IdsOf(morph0) \ RdsDups

RdsRemoved == RdsDone /\ kind = "ok" /\ RdsDups # {}

\* f renames the retained nodes of the input to the nodes of the result:
\* types (the soma's forced to 1) and coordinates are kept, the soma has parent
\* -1, a node whose parent was a duplicate has the soma as parent, and every
\* other node has the parent it had
RdsRenaming(f, soma, dups, kept) ==
    /\ {f[i] : i \in kept} = IdsOf(ret)
    /\ \A i \in kept :
          LET old == node_by_id(morph0, i)
              new == node_by_id(ret, f[i])
          IN  /\ new.pos = old.pos
              /\ new.type = (IF i = soma THEN SOMA ELSE old.type)
              /\ new.parent =
                    (IF i = soma THEN NoParent
                     ELSE IF old.parent \in dups THEN f[soma]
                     ELSE IF old.parent = NoParent THEN NoParent
                     ELSE f[old.parent])

\* C5: when duplicates of the soma exist, the returned tree is, up to the
\* renumbering of ids, the input without the duplicates, the soma having
\* parent -1 and type 1 and every retained child of a duplicate having the
\* soma as parent; no retained node refers to a removed node, and when the
\* soma and one duplicate are the only type-1 nodes one type-1 node remains.
C5_DuplicatesMerged ==
    RdsRemoved =>
        LET soma == RdsSoma.id
            dups == RdsDups
            kept == RdsKept
            retIds == IdsOf(ret)
        IN  /\ Cardinality(retIds) = Cardinality(kept)
            /\ \E f \in [kept -> retIds] : RdsRenaming(f, soma, dups, kept)
            /\ \A i \in retIds :
                  \/ node_by_id(ret, i).parent = NoParent
                  \/ node_by_id(ret, i).parent \in retIds
            /\ Cardinality({i \in retIds : node_by_id(ret, i).pos = RdsSoma.pos}) = 1
            /\ {i \in IdsOf(morph0) : node_by_id(morph0, i).type = SOMA}
                  \subseteq dups \cup {soma}
               => Cardinality({i \in retIds : node_by_id(ret, i).type = SOMA}) = 1

\* a duplicate of type 1 with a child that is no duplicate was removed
C5_Witness ==
    /\ RdsRemoved
    /\ \E d \in RdsDups, c \in RdsKept :
          /\ node_by_id(morph0, d).type = SOMA
          /\ RdsSoma.type = SOMA
          /\ c # RdsSoma.id
          /\ node_by_id(morph0, c).parent = d

----------------------------------------------------------------------------
(* Claim about the caller's tree *)

NotInPlace ==
    {"generate_irreducible_morph", "assign_soma_by_node_degree",
     "remove_duplicate_soma", "re_structure_segment",
     "check_morph_for_segment_restructuring", "re_root_morphology"}

\* C7: after a call of any of the six operations, every node of the caller's
\* tree has the id, type and parent it had before the call.
C7_CallerUntouched ==
    op \in NotInPlace =>
        /\ IdsOf(morph) = IdsOf(morph0)
        /\ TypeOf(morph) = TypeOf(morph0)
        /\ ParentOf(morph) = ParentOf(morph0)

----------------------------------------------------------------------------
(* Specification of segment repair: trees of up to MaxSegNodes nodes, ids    *)
(* 1..n, types soma/neurite, x coordinates 0..MaxSegCoord                    *)

InitSegments ==
    \E n \in 1..MaxSegNodes :
        \E par \in Forests(n), typ \in [1..n -> NodeTypes],
           pos \in [1..n -> Positions(MaxSegCoord)] :
            InitTree(MakeTree(n, [k \in 1..n |-> k], par, typ, pos))

NextSegments == CheckMorphForSegmentRestructuring

SpecSegments == InitSegments /\ [][NextSegments]_vars

CmsDone == op = "check_morph_for_segment_restructuring"

\* leaves of the tree of m rooted at r
LeavesBelow(m, r) == {l \in LeafIds(m) : IsAncestorOrSelf(m, r, l)}

SomaDist(m, i) == Dist(node_by_id(m, i).pos, get_soma(m).pos)

\* roots of m, other than the soma, with a leaf strictly closer to the soma
MisRooted(m) ==
    {r \in IdsOf(m) :
        /\ node_by_id(m, r).parent = NoParent
        /\ r # get_soma(m).id
        /\ \E l \in LeavesBelow(m, r) : SomaDist(m, l) < SomaDist(m, r)}

\* C6: when a segment has a leaf strictly closer to the soma than its root,
\* the call reports a change and returns a tree in which the segment is rooted
\* at a leaf that is closest to the soma; the call on the returned tree
\* reports no change and leaves every parent as it is.
C6_RepairThenStable ==
    (CmsDone /\ get_soma(morph0) # NoNode /\ MisRooted(morph0) # {}) =>
        /\ changes
        /\ \A r \in MisRooted(morph0) :
              \E l \in LeavesBelow(morph0, r) :
                  /\ node_by_id(ret, l).parent = NoParent
                  /\ node_by_id(ret, r).parent # NoParent
                  /\ SomaDist(morph0, l) < SomaDist(morph0, r)
                  /\ \A k \in LeavesBelow(morph0, r) :
                        SomaDist(morph0, l) <= SomaDist(morph0, k)
        /\ LET again == check_morph_for_segment_restructuring(ret)
           IN  /\ ~again.changes
               /\ ParentOf(again.morph) = ParentOf(ret)

\* a segment apart from the tree of a root soma, whose leaf is strictly
\* closer to the soma than its root, was re-rooted
C6_Witness ==
    /\ CmsDone
    /\ changes
    /\ get_soma(morph0).parent = NoParent
    /\ \E r \in MisRooted(morph0) : node_by_id(ret, r).parent # NoParent
    /\ ParentOf(ret) # ParentOf(morph0)

----------------------------------------------------------------------------
(* Claims about re_root_morphology *)

ReRootDone == op = "re_root_morphology" /\ kind = "ok"

\* C2: re-rooting at a node and then re-rooting the result at the former root
\* gives every node the parent it had in the original tree.
C2_RoundTrip ==
    ReRootDone =>
        LET back == re_root_morphology(RootOf(morph0, arg), ret)
        IN  /\ back.kind = "ok"
            /\ ParentOf(back.morph) = ParentOf(morph0)

\* a node three edges below its root was promoted, which changed parents
C2_Witness ==
    /\ ReRootDone
    /\ DepthOf(morph0, arg) = 4
    /\ ParentOf(ret) # ParentOf(morph0)

\* C9: the new root has parent -1, every other node on the path from the new
\* root to the old root has as parent the path node that was its child, and
\* every node off the path keeps its parent.
C9_PathReversal ==
    ReRootDone =>
        /\ IdsOf(ret) = IdsOf(morph0)
        /\ \A i \in IdsOf(morph0) :
              LET new == node_by_id(ret, i).parent
                  old == node_by_id(morph0, i).parent
              IN  IF i = arg THEN new = NoParent
                  ELSE IF IsAncestorOrSelf(morph0, i, arg)
                  THEN /\ IsAncestorOrSelf(morph0, new, arg)
                       /\ node_by_id(morph0, new).parent = i
                  ELSE new = old

\* the path root -> a -> b -> newRoot was reversed in a tree that also holds a
\* node off the path hanging from a path node
C9_Witness ==
    /\ ReRootDone
    /\ DepthOf(morph0, arg) = 4
    /\ \E i \in IdsOf(morph0) :
          /\ ~IsAncestorOrSelf(morph0, i, arg)
          /\ node_by_id(morph0, i).parent # NoParent
          /\ node_by_id(morph0, i).parent # arg
          /\ IsAncestorOrSelf(morph0, node_by_id(morph0, i).parent, arg)

====
